---- MODULE Spec2Model ----
(***************************************************************************)
(* Model of the star-geometry engine of sv_logo (src/src/main.rs):         *)
(* make_star, make_segmented_star and the call main makes.                 *)
(*                                                                         *)
(* f32 values are modelled as fixed-point numbers (Scale units per 1.0)    *)
(* extended with NaN and the two infinities, with the IEEE rules for       *)
(* division by zero and for arithmetic on NaN / infinity.  Angles are kept *)
(* in units of a quarter of the angular half-step, so that a full turn is  *)
(* 4 * spokes units and every angle the code forms is an integer.          *)
(***************************************************************************)
EXTENDS Integers, Sequences, FiniteSets, TLC

\* ------------------------------------------------------------------ bounds
MaxSpokes == 5
MaxColors == 3

\* ------------------------------------------------------------- f32 values
Scale == 1000

F(n) == [k |-> "fin", v |-> n]
NaN == [k |-> "nan", v |-> 0]
Inf(s) == [k |-> "inf", v |-> s]

Sgn(n) == IF n > 0 THEN 1 ELSE IF n < 0 THEN 0 - 1 ELSE 0
Abs(n) == IF n < 0 THEN 0 - n ELSE n
\* integer quotient rounded toward zero
Quot(a, b) == Sgn(a) * Sgn(b) * (Abs(a) \div Abs(b))

IsFinite(a) == a.k = "fin"

FNeg(a) == IF a.k = "nan" THEN NaN
           ELSE IF a.k = "inf" THEN Inf(0 - a.v)
           ELSE F(0 - a.v)

FAdd(a, b) ==
    IF a.k = "nan" \/ b.k = "nan" THEN NaN
    ELSE IF a.k = "inf" /\ b.k = "inf"
         THEN IF a.v = b.v THEN a ELSE NaN
    ELSE IF a.k = "inf" THEN a
    ELSE IF b.k = "inf" THEN b
    ELSE F(a.v + b.v)

FSub(a, b) == FAdd(a, FNeg(b))

FMul(a, b) ==
    IF a.k = "nan" \/ b.k = "nan" THEN NaN
    ELSE IF a.k = "inf" \/ b.k = "inf"
         THEN IF Sgn(a.v) * Sgn(b.v) = 0 THEN NaN
              ELSE Inf(Sgn(a.v) * Sgn(b.v))
    ELSE F(Quot(a.v * b.v, Scale))

FDiv(a, b) ==
    IF a.k = "nan" \/ b.k = "nan" THEN NaN
    ELSE IF a.k = "inf"
         THEN IF b.k = "inf" THEN NaN
              ELSE Inf(IF b.v < 0 THEN 0 - a.v ELSE a.v)
    ELSE IF b.k = "inf" THEN F(0)
    ELSE IF b.v = 0
         THEN IF a.v = 0 THEN NaN ELSE Inf(Sgn(a.v))
    ELSE F(Quot(a.v * Scale, b.v))

\* ------------------------------------------------------------------- Vec2
Vec2(x, y) == [x |-> x, y |-> y]
VNeg(a) == Vec2(FNeg(a.x), FNeg(a.y))
VAdd(a, b) == Vec2(FAdd(a.x, b.x), FAdd(a.y, b.y))
VSub(a, b) == Vec2(FSub(a.x, b.x), FSub(a.y, b.y))

\* ----------------------------------------------------------------- angles
\* std::f32::consts::TAU, in angle units, for a star of n spokes
TAU(n) == 4 * n

\* f32 division of an angle by an integer-valued float (exact on the
\* angles the code forms)
AngleDiv(a, b) == IF b < 0 THEN (0 - a) \div (0 - b) ELSE a \div b

\* cos of k angle units, k in 0 .. 4n-1, times Scale; row n is for n spokes
CosMilli ==
<<
    << 1000, 0, -1000, 0 >>,
    << 1000, 707, 0, -707, -1000, -707, 0, 707 >>,
    << 1000, 866, 500, 0, -500, -866, -1000, -866, -500, 0, 500, 866 >>,
    << 1000, 924, 707, 383, 0, -383, -707, -924, -1000, -924, -707, -383, 0, 383, 707, 924 >>,
    << 1000, 951, 809, 588, 309, 0, -309, -588, -809, -951, -1000, -951, -809, -588, -309, 0, 309, 588, 809, 951 >>,
    << 1000, 966, 866, 707, 500, 259, 0, -259, -500, -707, -866, -966, -1000, -966, -866, -707, -500, -259, 0, 259, 500, 707, 866, 966 >>,
    << 1000, 975, 901, 782, 623, 434, 223, 0, -223, -434, -623, -782, -901, -975, -1000, -975, -901, -782, -623, -434, -223, 0, 223, 434, 623, 782, 901, 975 >>
>>

Cos(theta, n) == F(CosMilli[n][(theta % TAU(n)) + 1])
Sin(theta, n) == Cos(theta - n, n)

\* Rotor2::from_angle(theta)
Rotor2(theta, n) == [c |-> Cos(theta, n), s |-> Sin(theta, n)]

\* rotor * vec
RotorMul(r, p) ==
    Vec2(FSub(FMul(r.c, p.x), FMul(r.s, p.y)),
         FAdd(FMul(r.s, p.x), FMul(r.c, p.y)))

\* ---------------------------------------------------------- path data
MoveTo(p) == [cmd |-> "M", x |-> p.x, y |-> p.y]
LineTo(p) == [cmd |-> "L", x |-> p.x, y |-> p.y]
Close == [cmd |-> "Z", x |-> F(0), y |-> F(0)]

\* Path::new().set("fill", fill).set("stroke", "none").set("d", data)
Path(fill, data) == [fill |-> fill, stroke |-> "none", d |-> data]

\* ------------------------------------------------------------ the solver
\* let angle = -TAU / spokes as f32
Angle(spokes) == AngleDiv(0 - TAU(spokes), spokes)

\* let outer_pos_start = Vec2::new(0.0, outer_radius)
OuterPosStart(outer_radius) == Vec2(F(0), outer_radius)

\* pos_0, pos_1 and diff of the inner-radius block
Chord(angle, outer_pos_start, spokes) ==
    LET pos_0 == RotorMul(Rotor2(angle, spokes), outer_pos_start)
        pos_1 == RotorMul(Rotor2(AngleDiv(angle * (spokes - 1), 0 - 2), spokes),
                          outer_pos_start)
    IN  [pos_0 |-> pos_0, pos_1 |-> pos_1, diff |-> VSub(pos_0, pos_1)]

\* let slope = diff.y / diff.x;  pos_0.y - slope * pos_0.x
Intercept(ch) ==
    LET slope == FDiv(ch.diff.y, ch.diff.x)
    IN  FSub(ch.pos_0.y, FMul(slope, ch.pos_0.x))

\* ------------------------------------------------------------- make_star
\* inner_pos_start of make_star: the block's value, then * multiplier
StarInnerPosStart(angle, outer_pos_start, spokes, inner_radius_multiplier) ==
    LET inner_radius == Intercept(Chord(angle, outer_pos_start, spokes))
    IN  Vec2(F(0), FMul(inner_radius, inner_radius_multiplier))

\* the body of `for i in 0..spokes` of make_star, from iteration i on
RECURSIVE StarPoints(_, _, _)
StarPoints(i, points, L) ==
    IF i >= L.spokes THEN points
    ELSE LET rotor0 == Rotor2(L.angle * i, L.spokes)
             p0 == VAdd(RotorMul(rotor0, VNeg(L.outer_pos_start)), L.center)
             rotor1 == Rotor2(L.angle * i + AngleDiv(L.angle, 2), L.spokes)
             p1 == VAdd(RotorMul(rotor1, L.inner_pos_start), L.center)
         IN  StarPoints(i + 1, Append(Append(points, p0), p1), L)

\* `for point in points.iter().skip(1)`: data.line_to, from position j on
RECURSIVE StarLines(_, _, _)
StarLines(j, data, points) ==
    IF j > Len(points) THEN data
    ELSE StarLines(j + 1, Append(data, LineTo(points[j])), points)

\* StarData without the skip(1): the first point is drawn to again
StarDataNoSkip(points) ==
    LET data0 == IF Len(points) > 0 THEN << MoveTo(points[1]) >> ELSE << >>
    IN  Append(StarLines(1, data0, points), Close)

\* move_to the first point if any, line_to the others, close
StarData(points) ==
    LET data0 == IF Len(points) > 0 THEN << MoveTo(points[1]) >> ELSE << >>
    IN  Append(StarLines(2, data0, points), Close)

make_star(center, outer_radius, inner_radius_multiplier, spokes, color) ==
    LET angle == Angle(spokes)
        outer_pos_start == OuterPosStart(outer_radius)
        inner_pos_start ==
            StarInnerPosStart(angle, outer_pos_start, spokes, inner_radius_multiplier)
        L == [angle |-> angle, spokes |-> spokes, center |-> center,
              outer_pos_start |-> outer_pos_start,
              inner_pos_start |-> inner_pos_start]
        points == StarPoints(0, << >>, L)
    IN  [status |-> "returned",
         inner_pos_start |-> inner_pos_start,
         points |-> points,
         path |-> Path(color, StarData(points))]

\* --------------------------------------------------- make_segmented_star
\* SegInnerPosStart with the multiplier left out
SegInnerPosStartUnscaled(angle, outer_pos_start, spokes, inner_radius_multiplier) ==
    Vec2(F(0), Intercept(Chord(angle, outer_pos_start, spokes)))

\* inner_pos_start of make_segmented_star: multiplier * the block's value
SegInnerPosStart(angle, outer_pos_start, spokes, inner_radius_multiplier) ==
    LET inner_radius ==
            FMul(inner_radius_multiplier,
                 Intercept(Chord(angle, outer_pos_start, spokes)))
    IN  Vec2(F(0), inner_radius)

\* the body of `for i in 0..spokes` of make_segmented_star, from i on
RECURSIVE SegPoints(_, _, _)
SegPoints(i, points, L) ==
    IF i >= L.spokes THEN points
    ELSE LET rotor0 == Rotor2(L.angle * i, L.spokes)
             p0 == VAdd(RotorMul(rotor0, VNeg(L.outer_pos_start)), L.center)
             rotor1 == Rotor2(L.angle * i + AngleDiv(L.angle, 2), L.spokes)
             p1 == VAdd(RotorMul(rotor1, L.inner_pos_start), L.center)
         IN  SegPoints(i + 1, Append(Append(points, p0), p1), L)

\* PairWedge with the index counted from 1
PairWedgeOneBased(i, previous, point) ==
    IF (i + 1) % 2 = 1 THEN << point, previous >> ELSE << previous, point >>

\* A wedge of `triangles` is kept as the pair of 0-based positions in
\* `points` its two vertices were copied from.
\* the push of one loop iteration: i is the enumerate() index, previous and
\* point the ring positions of the two references
PairWedge(i, previous, point) ==
    IF i % 2 = 1 THEN << point, previous >> ELSE << previous, point >>

\* `for (i, point) in points.iter().skip(1).enumerate()`, from index i on
RECURSIVE SegPairs(_, _, _, _)
SegPairs(i, previous, triangles, points) ==
    IF i + 1 >= Len(points)
    THEN [triangles |-> triangles, previous |-> previous]
    ELSE SegPairs(i + 1, i + 1,
                  Append(triangles, PairWedge(i, previous, i + 1)), points)

\* ClosingWedge taking `point` for the loop's last point
ClosingWedgeStale(first, previous) == << previous, previous >>

\* the push after the loop: `point` is again points.get(0)
ClosingWedge(first, previous) == << first, previous >>

\* SegTriangles without the push after the loop
SegTrianglesNoClosing(points) ==
    IF Len(points) > 0
    THEN SegPairs(0, 0, << >>, points).triangles
    ELSE << >>

\* if let Some(point) = points.get(0) { ... }
SegTriangles(points) ==
    IF Len(points) > 0
    THEN LET r == SegPairs(0, 0, << >>, points)
         IN  Append(r.triangles, ClosingWedge(0, r.previous))
    ELSE << >>

\* colors.get(index)
ColorsGet(colors, index) ==
    IF index < Len(colors)
    THEN [some |-> TRUE, val |-> colors[index + 1]]
    ELSE [some |-> FALSE, val |-> ""]

\* Option::unwrap_or
UnwrapOr(opt, default) == IF opt.some THEN opt.val ELSE default

\* FillIndex counting the wedges from 1
FillIndexShifted(i, colors) == (i + 1) % Len(colors)

\* the index handed to colors.get (colors non-empty)
FillIndex(i, colors) == i % Len(colors)

\* move_to v0, line_to v1, line_to center, close
WedgeData(v0, v1, center) ==
    << MoveTo(v0), LineTo(v1), LineTo(center), Close >>

RemainderPanic == "attempt to calculate the remainder with a divisor of zero"

\* `for (i, [v0, v1]) in triangles.iter().enumerate()`, from index i on;
\* i % colors.len() panics when colors is empty
RECURSIVE SegOutput(_, _, _, _, _, _)
SegOutput(i, output, triangles, points, center, colors) ==
    IF i >= Len(triangles)
    THEN [status |-> "returned", error |-> "", output |-> output]
    ELSE IF Len(colors) = 0
    THEN [status |-> "panicked", error |-> RemainderPanic, output |-> << >>]
    ELSE LET v0 == points[triangles[i + 1][1] + 1]
             v1 == points[triangles[i + 1][2] + 1]
             fill == UnwrapOr(ColorsGet(colors, FillIndex(i, colors)), "#ffffff")
         IN  SegOutput(i + 1,
                       Append(output, Path(fill, WedgeData(v0, v1, center))),
                       triangles, points, center, colors)

make_segmented_star(center, outer_radius, inner_radius_multiplier, spokes, colors) ==
    LET angle == Angle(spokes)
        outer_pos_start == OuterPosStart(outer_radius)
        inner_pos_start ==
            SegInnerPosStart(angle, outer_pos_start, spokes, inner_radius_multiplier)
        L == [angle |-> angle, spokes |-> spokes, center |-> center,
              outer_pos_start |-> outer_pos_start,
              inner_pos_start |-> inner_pos_start]
        points == SegPoints(0, << >>, L)
        triangles == SegTriangles(points)
        r == SegOutput(0, << >>, triangles, points, center, colors)
    IN  [status |-> r.status,
         error |-> r.error,
         inner_pos_start |-> inner_pos_start,
         points |-> points,
         triangles |-> triangles,
         output |-> r.output]

\* ------------------------------------------------------------------ main
MAIN_SIZE == F(45 * Scale)
MainMultiplier == F((3 * Scale) \div 2)
MainSpokes == 5
MainCenter == Vec2(F(0), F(0))
MainColors ==
    << "#fdffe7", "#fcfdeb", "#f8d28f", "#fefde8", "#f3d090",
       "#c89262", "#f5ce8d", "#c49963", "url(#gradient1)", "#f8cf90" >>

\* ---------------------------------------------------------------- inputs
Centers == { MainCenter, Vec2(F(10 * Scale), F((0 - 5) * Scale)) }
Radii == { F(0), MAIN_SIZE }
Multipliers == { F(Scale), MainMultiplier }
\* spokes >= 1: both functions form the unsigned `spokes - 1`
SpokeCounts == 1 .. MaxSpokes
Palettes == { SubSeq(MainColors, 1, k) : k \in 0 .. MaxColors } \cup { MainColors }
StarColors == { "#ffffff", "#f3a9db" }

\* ----------------------------------------------------------------- state
VARIABLES center, outer_radius, inner_radius_multiplier, spokes, colors,
          color, star, seg, image

vars == << center, outer_radius, inner_radius_multiplier, spokes, colors,
           color, star, seg, image >>

inputs == << center, outer_radius, inner_radius_multiplier, spokes, colors,
             color >>

NoStar == [status |-> "idle", inner_pos_start |-> MainCenter,
           points |-> << >>, path |-> Path("", << >>)]

NoSeg == [status |-> "idle", error |-> "", inner_pos_start |-> MainCenter,
          points |-> << >>, triangles |-> << >>, output |-> << >>]

Init ==
    /\ center \in Centers
    /\ outer_radius \in Radii
    /\ inner_radius_multiplier \in Multipliers
    /\ spokes \in SpokeCounts
    /\ colors \in Palettes
    /\ color \in StarColors
    /\ star = NoStar
    /\ seg = NoSeg
    /\ image = NoSeg

\* a call of make_star on the arguments
MakeStar ==
    /\ star.status = "idle"
    /\ star' = make_star(center, outer_radius, inner_radius_multiplier,
                         spokes, color)
    /\ UNCHANGED << inputs, seg, image >>

\* a call of make_segmented_star on the same arguments and a palette
MakeSegmentedStar ==
    /\ seg.status = "idle"
    /\ seg' = make_segmented_star(center, outer_radius,
                                  inner_radius_multiplier, spokes, colors)
    /\ UNCHANGED << inputs, star, image >>

\* main's star_triangles
Main ==
    /\ image.status = "idle"
    /\ image' = make_segmented_star(MainCenter, MAIN_SIZE, MainMultiplier,
                                    MainSpokes, MainColors)
    /\ UNCHANGED << inputs, star, seg >>

Next == MakeStar \/ MakeSegmentedStar \/ Main

Spec == Init /\ [][Next]_vars

\* ---------------------------------------------------------------- claims
\* the 0-based ring positions of wedge k (0-based) of a call's triangles
WedgeAt(r, k) == r.triangles[k + 1]

IsOuterPos(j) == j % 2 = 0

FiniteVec(p) == IsFinite(p.x) /\ IsFinite(p.y)

\* a returned call: 2n wedge paths, each M, L, L center, Z
WedgePathsOk(r, n, c) ==
    /\ Len(r.output) = 2 * n
    /\ \A k \in 1 .. Len(r.output) :
          LET d == r.output[k].d
          IN  /\ Len(d) = 4
              /\ d[1].cmd = "M"
              /\ d[2].cmd = "L"
              /\ d[3] = LineTo(c)
              /\ d[4] = Close

\* C1: for every spoke count n, make_segmented_star returns exactly 2n wedge
\* paths, each a closed triangle (move_to, line_to, line_to, close) whose
\* third vertex is the center passed in.
C1_WedgeCountAndCenter ==
    /\ seg.status = "returned" => WedgePathsOk(seg, spokes, center)
    /\ image.status = "returned" => WedgePathsOk(image, MainSpokes, MainCenter)

C1_Witness ==
    /\ seg.status = "returned"
    /\ spokes = 3
    /\ Len(seg.output) = 6
    /\ center # MainCenter

\* C2: with a non-empty palette of length k, the wedge at output index i has
\* fill colors[i mod k] and never the "#ffffff" fallback; main's 10 wedges
\* carry main's 10 palette entries in order.
C2_ColorCycling ==
    /\ (seg.status = "returned" /\ Len(colors) > 0) =>
          \A i \in 0 .. Len(seg.output) - 1 :
              /\ seg.output[i + 1].fill = colors[(i % Len(colors)) + 1]
              /\ seg.output[i + 1].fill # "#ffffff"
    /\ image.status = "returned" =>
          /\ Len(image.output) = Len(MainColors)
          /\ \A i \in 1 .. Len(image.output) :
                 image.output[i].fill = MainColors[i]

C2_Witness ==
    /\ seg.status = "returned"
    /\ Len(colors) = 3
    /\ Len(seg.output) = 10
    /\ seg.output[10].fill = colors[1]
    /\ image.status = "returned"
    /\ image.output[10].fill = "#f8cf90"

\* C3: called with an empty colors list and spokes >= 1,
\* make_segmented_star fails with an explicit invalid-configuration error and
\* returns no shape.
C3_EmptyPaletteInvalidConfiguration ==
    (seg.status # "idle" /\ colors = << >> /\ spokes >= 1) =>
        /\ seg.status = "panicked"
        /\ seg.error = "InvalidConfiguration"
        /\ seg.output = << >>

\* C4: for n >= 3, make_star builds 2n vertices and emits one move_to to the
\* first, a line_to for each of the other 2n-1 in ring order, then a close.
C4_OutlineClosedPath ==
    (star.status = "returned" /\ spokes >= 3) =>
        LET d == star.path.d
            n2 == 2 * spokes
        IN  /\ Len(star.points) = n2
            /\ Len(d) = n2 + 1
            /\ d[1] = MoveTo(star.points[1])
            /\ \A j \in 2 .. n2 : d[j] = LineTo(star.points[j])
            /\ d[n2 + 1] = Close

C4_Witness ==
    /\ star.status = "returned"
    /\ spokes = 3
    /\ Len(star.path.d) = 7
    /\ \A j \in 1 .. 6 : FiniteVec(star.points[j])
    /\ star.points[1] # star.points[2]

\* C5: on the same arguments make_segmented_star builds the ring make_star
\* builds: the same 2n points in the same order, outer vertex of spoke i at
\* ring position 2i and its inner vertex at 2i+1, the multiplier applied once
\* to the solved inner radius before any ring vertex is built.
C5_SameVertexRing ==
    (star.status = "returned" /\ seg.status # "idle") =>
        LET angle == Angle(spokes)
            ops == OuterPosStart(outer_radius)
            scaled == Vec2(F(0), FMul(Intercept(Chord(angle, ops, spokes)),
                                      inner_radius_multiplier))
        IN  /\ Len(seg.points) = 2 * spokes
            /\ seg.points = star.points
            /\ seg.inner_pos_start = scaled
            /\ star.inner_pos_start = scaled
            /\ \A i \in 0 .. spokes - 1 :
                  /\ seg.points[2 * i + 1] =
                        VAdd(RotorMul(Rotor2(angle * i, spokes), VNeg(ops)),
                             center)
                  /\ seg.points[2 * i + 2] =
                        VAdd(RotorMul(Rotor2(angle * i + AngleDiv(angle, 2),
                                             spokes), scaled), center)

C5_Witness ==
    /\ star.status = "returned"
    /\ seg.status = "returned"
    /\ spokes = 5
    /\ inner_radius_multiplier = MainMultiplier
    /\ outer_radius = MAIN_SIZE
    /\ IsFinite(seg.inner_pos_start.y)
    /\ seg.inner_pos_start.y # Intercept(Chord(Angle(5), OuterPosStart(MAIN_SIZE), 5))
    /\ seg.points = star.points

\* C6 (as stated): with i counted from 1 at the second ring vertex, the wedge
\* of the pair (ring[i-1], ring[i]) is (current, previous) when i is odd and
\* (previous, current) when i is even.
C6_OneBasedParity ==
    seg.status # "idle" =>
        \A i \in 1 .. Len(seg.points) - 1 :
            WedgeAt(seg, i - 1) =
                IF i % 2 = 1 THEN << i, i - 1 >> ELSE << i - 1, i >>

\* C6 (amended): with i counted from 0 at the second ring vertex, the wedge
\* of the pair (ring[i], ring[i+1]) is (current, previous, center) when i is
\* odd and (previous, current, center) when i is even.
C6_ZeroBasedParity ==
    seg.status # "idle" =>
        /\ Len(seg.triangles) >= Len(seg.points) - 1
        /\ \A i \in 0 .. Len(seg.points) - 2 :
              /\ WedgeAt(seg, i) =
                    IF i % 2 = 1 THEN << i + 1, i >> ELSE << i, i + 1 >>
              /\ seg.status = "returned" =>
                    seg.output[i + 1].d =
                        IF i % 2 = 1
                        THEN WedgeData(seg.points[i + 2], seg.points[i + 1], center)
                        ELSE WedgeData(seg.points[i + 1], seg.points[i + 2], center)

C6_Witness ==
    /\ seg.status = "returned"
    /\ spokes = 2
    /\ WedgeAt(seg, 0) = << 0, 1 >>
    /\ WedgeAt(seg, 1) = << 2, 1 >>
    /\ WedgeAt(seg, 2) = << 2, 3 >>

\* wedge k lists its two ring vertices in ring-forward order
RingForward(r, k) ==
    WedgeAt(r, k) = << k, (k + 1) % Len(r.points) >>

\* wedge k lists its two ring vertices in ring-backward order
RingBackward(r, k) ==
    WedgeAt(r, k) = << (k + 1) % Len(r.points), k >>

\* C7: all 2n wedges have the same fan winding: either every wedge lists its
\* ring vertices in ring-forward order or every wedge in ring-backward order.
C7_ConsistentWinding ==
    seg.status # "idle" =>
        \/ \A k \in 0 .. Len(seg.triangles) - 1 : RingForward(seg, k)
        \/ \A k \in 0 .. Len(seg.triangles) - 1 : RingBackward(seg, k)

\* C8: when pos_0 and pos_1 have equal x (diff.x = 0), the inner radius is
\* not NaN or infinite and no NaN / infinite coordinate reaches the path data.
C8_VerticalChordGuarded ==
    LET ch == Chord(Angle(spokes), OuterPosStart(outer_radius), spokes)
    IN  ch.diff.x = F(0) =>
            /\ star.status = "returned" =>
                  /\ IsFinite(star.inner_pos_start.y)
                  /\ \A j \in 1 .. Len(star.path.d) :
                         IsFinite(star.path.d[j].x) /\ IsFinite(star.path.d[j].y)
            /\ seg.status = "returned" =>
                  /\ IsFinite(seg.inner_pos_start.y)
                  /\ \A k \in 1 .. Len(seg.output) :
                       \A j \in 1 .. Len(seg.output[k].d) :
                         /\ IsFinite(seg.output[k].d[j].x)
                         /\ IsFinite(seg.output[k].d[j].y)

\* C9: consecutive wedges of the output do not both start at an outer vertex
\* (even ring position) nor both at an inner vertex (odd ring position).
C9_AlternatingStart ==
    seg.status # "idle" =>
        \A k \in 0 .. Len(seg.triangles) - 2 :
            IsOuterPos(WedgeAt(seg, k)[1]) # IsOuterPos(WedgeAt(seg, k + 1)[1])

\* C10: for n >= 1 wedge k (0 <= k < 2n-1) uses exactly ring[k] and
\* ring[k+1], and the last wedge, emitted after all others, uses ring[2n-1]
\* and ring[0]: every cyclic ring edge once, in order.
C10_WedgesAreRingEdges ==
    seg.status # "idle" =>
        LET n2 == 2 * spokes
        IN  /\ Len(seg.points) = n2
            /\ Len(seg.triangles) = n2
            /\ \A k \in 0 .. n2 - 2 :
                  { WedgeAt(seg, k)[1], WedgeAt(seg, k)[2] } = { k, k + 1 }
            /\ { WedgeAt(seg, n2 - 1)[1], WedgeAt(seg, n2 - 1)[2] } = { n2 - 1, 0 }
            /\ seg.status = "returned" =>
                  \A k \in 0 .. n2 - 1 :
                      /\ seg.output[k + 1].d[1] =
                            MoveTo(seg.points[WedgeAt(seg, k)[1] + 1])
                      /\ seg.output[k + 1].d[2] =
                            LineTo(seg.points[WedgeAt(seg, k)[2] + 1])

C10_Witness ==
    /\ seg.status = "returned"
    /\ spokes = 3
    /\ WedgeAt(seg, 5) = << 0, 5 >>
    /\ outer_radius = MAIN_SIZE
    /\ seg.output[6].d[1] = MoveTo(seg.points[1])
    /\ seg.output[6].d[2] = LineTo(seg.points[6])

====
